---- MODULE Spec2Model ----
(***************************************************************************)
(* Conversation synchronizer of swift-chat: the useChat hook               *)
(* (src/src/pages/Chat.tsx, lines 172-416) seen by the local user "A",     *)
(* together with the collaborators it talks to: the messages table, the    *)
(* INSERT change stream of the active subscription, the history query and  *)
(* the bulk seen update.                                                   *)
(***************************************************************************)
EXTENDS Integers, Sequences, FiniteSets, TLC

\* ------------------------------------------------------------------ bounds
PairSends == 2         \* sendMessage calls explored for one fixed pair
PairMsgs == 2          \* rows of the messages table explored for one fixed pair
SwitchSends == 1       \* sendMessage calls explored across peer switches
SwitchMsgs == 1        \* rows of the messages table explored across switches
SwitchActs == 3        \* runs of the subscription effect (peer selections)
MaxClock == 1          \* last value of the millisecond clock, Date.now()
NotifySends == 1       \* sendMessage calls explored with callbacks registered
NotifyMsgs == 2        \* rows of the messages table explored with callbacks
MaxCallbacks == 2      \* setOnNewMessage calls explored
MaxCalls == 2          \* invocations of the callback explored for one message
TypingActs == 3        \* runs of the subscription effect explored with typing
UsersMsgs == 2         \* rows of the messages table explored with the directory
MaxFetches == 2        \* searchUsers / getRecentConversations calls explored
MaxUpdates == 1        \* updates of the profiles table explored
MaxWrites == 3         \* presence writes explored
MaxSignIns == 2        \* signIn calls explored
MaxIdLen == 2          \* characters of a profile id in a channel name
MaxClients == 2        \* clients that name their typing channel
MaxTimers == 3         \* typing timers the chat window creates
NoticeMsgs == 2       \* messages the peers send while notifications are explored
NoticeCalls == 2      \* callback invocations per message while notifications are explored
PaneActs == 2         \* peers picked from the sidebar
PaneFetches == 2      \* directory fetches while the user picks peers
MaxAnnounces == 4      \* onTyping calls of the chat window explored

\* --------------------------------------------------------------- constants
Me == "A"                          \* currentProfileId
Peers == {"B", "C"}                \* the other profiles
NoPeer == "undefined"              \* selectedUserId before any selection
NoCallback == 0                    \* onNewMessageRef.current === null
Texts == {<<>>, <<" ">>, <<" ", "h", " ">>}   \* what the user may type
Username == [A |-> <<"h", "a">>, B |-> <<"h", "b">>, C |-> <<"h", "c">>]
Queries == {<<>>, <<" ">>, <<"h">>, <<"b">>}   \* what the user may search for
NoUser == "null"                   \* useAuth user === null
Permissions == {"default", "granted", "denied"}   \* NotificationPermission
NoResult == [call |-> "none", data |-> "null", error |-> "null"]   \* no call returned yet
Accounts == {"A", "B"}             \* the accounts that sign in on this client
IdChars == {48, 97}                \* code units of an id: "0" and "a"
Colon == 58                        \* ":"
TypingPrefix == <<116, 121, 112, 105, 110, 103, 58>>   \* "typing:"
NoTimer == 0                       \* typingTimeoutRef.current === null
Values == {<<>>, <<" ">>, <<"h">>, <<"h", "i">>}   \* values of the input field

VARIABLES
  selectedUserId,  \* Chat.selectedUserId, the argument of useChat
  messages,        \* useChat state: the timeline
  loading,         \* useChat state
  uploading,       \* useChat state
  sends,           \* every sendMessage call: its closure and where it stands
  loads,           \* every loadMessages call: its closure and where it stands
  seenReqs,        \* the markAsSeen updates in flight, by peer
  db,              \* the messages table; the row id is its index
  inbox,           \* INSERT events of the active subscription, not yet handled
  handled,         \* INSERT events it handled, which the stream may send again
  clock,           \* the last reading of Date.now()
  reloaded,        \* a history response replaced a timeline holding placeholders
  scope,           \* what this exploration lets the user and the peers do
  onNewMessageRef, \* useChat ref: the registered callback (its generation)
  calls,           \* every invocation of a callback: <<callback, message id, nth>>
  channelRef,      \* useChat ref: the peer of the last messages channel created
  typingChannelRef,\* useChat ref: the peer of the last typing channel created
  channels,        \* the subscriptions that are open
  typingUsers,     \* useChat state
  presenceState,   \* presenceState() of the typing channel on the client
  tracked,         \* the presences each typing channel holds on the server
  users,           \* useUsers state: the directory
  usersLoading,    \* useUsers state: loading
  fetches,         \* every searchUsers / getRecentConversations call
  profiles,        \* the profiles table, by profile id
  profileEvents,   \* UPDATE events of the profiles subscription, not yet handled
  user,            \* useAuth state: the signed-in user, or NoUser
  authSession,     \* the session the auth client holds
  checked,         \* getSession() of the mount effect has resolved
  visibilityState, \* document.visibilityState
  listeners,       \* user of the registered visibility / unload handlers
  heartbeat,       \* user of the running heartbeat interval
  deferred,        \* users of the pending setTimeout(..., 0) callbacks
  writes,          \* every presence request the client dispatched
  signOutPc,       \* where the signOut call stands
  page,            \* "open" until the page unloads
  profile,         \* useAuth state: the user whose profile was fetched, or NoUser
  authLoading,     \* useAuth state: loading
  profileFetches,  \* users of the fetchProfile queries in flight
  signInPc,        \* where the signIn call stands
  returned,        \* what the last signIn / signOut call returned
  keyed,           \* the typing channel each client named
  newMessage,      \* ChatWindow state: the input field
  selectedFile,    \* ChatWindow state: a file is attached
  typingTimeoutRef,\* ChatWindow ref: the last typing timer created
  timers,          \* the typing timers that are pending
  timerSeq,        \* the typing timers created so far
  announced,       \* every onTyping call of the chat window
  selectedUser,    \* Chat state: the profile handed to the chat window
  permission,      \* useNotifications state
  permissionPc,    \* where the mount effect and requestPermission stand
  shown            \* every system notification created

chatVars == <<selectedUserId, messages, loading, uploading, sends, loads, seenReqs,
              db, inbox, handled, clock, reloaded, scope>>
notifyVars == <<onNewMessageRef, calls>>
subsVars == <<channelRef, typingChannelRef, channels>>
typingVars == <<typingUsers, presenceState, tracked>>
usersVars == <<users, usersLoading, fetches, profiles, profileEvents>>
sessionVars == <<profile, authLoading, profileFetches, signInPc, returned>>
authVars == <<user, authSession, checked, visibilityState, listeners, heartbeat,
              deferred, writes, signOutPc, page, sessionVars>>
keyVars == <<keyed>>
inputVars == <<newMessage, selectedFile, typingTimeoutRef, timers, timerSeq,
               announced>>
paneVars == <<selectedUser>>
noticeVars == <<permission, permissionPc, shown>>
pageVars == <<authVars, keyVars, inputVars, paneVars, noticeVars>>
vars == <<chatVars, notifyVars, subsVars, typingVars, usersVars, pageVars>>

\* ------------------------------------------------------------ pure helpers
\* String.prototype.trim on a sequence of characters.
RECURSIVE TrimLeft(_)
TrimLeft(t) == IF t # <<>> /\ Head(t) = " " THEN TrimLeft(Tail(t)) ELSE t

RECURSIVE TrimRight(_)
TrimRight(t) ==
  IF t # <<>> /\ t[Len(t)] = " " THEN TrimRight(SubSeq(t, 1, Len(t) - 1)) ELSE t

\* (variants: nothing is removed; only the leading blanks are)
TrimNothing(t) == t
TrimLeftOnly(t) == TrimLeft(t)
Trim(t) == TrimRight(TrimLeft(t))

\* Identifiers: `temp-${Date.now()}` for a placeholder, the row's uuid otherwise.
TempId(ms) == <<"temp-", ms>>
ServerId(n) == <<"uuid-", n>>
IsTemp(id) == id[1] = "temp-"      \* m.id.startsWith('temp-')

HasId(s, id) == \E i \in 1..Len(s) : s[i].id = id       \* prev.some(m => m.id === id)
IsPending(m) == IsTemp(m.id)
IsDurable(m) == ~IsTemp(m.id)
Pending(s) == SelectSeq(s, IsPending)
Durable(s) == SelectSeq(s, IsDurable)

\* The pair test of the INSERT handler and of the history query.
\* (variant: every message of the local user passes)
InPairLoose(m, me, peer) == m.sender_id = me \/ m.receiver_id = me
InPair(m, me, peer) ==
  \/ m.sender_id = me /\ m.receiver_id = peer
  \/ m.sender_id = peer /\ m.receiver_id = me

\* A row of the profiles table; last_seen counts the updates of the row.
Profile(id, online, lastSeen) == [id |-> id, online |-> online, last_seen |-> lastSeen]

\* useState<Profile | null>(null): no profile.
NoProfile == Profile(NoUser, FALSE, 0)

\* users.find((u) => u.id === id) || null
FindUser(list, id) ==
  IF \E i \in DOMAIN list : list[i].id = id
  THEN list[CHOOSE i \in DOMAIN list :
              list[i].id = id /\ \A j \in 1..(i - 1) : list[j].id # id]
  ELSE NoProfile

\* The effect of Chat on [selectedUserId, users]: with a peer selected the
\* selected profile is looked up in the directory.
SelectedUserEffect(id, list, prev) ==
  IF id # NoPeer THEN FindUser(list, id) ELSE prev

\* ------------------------------------------------------------------- state
\* useState([]), useState(false), ...: the hook before any peer is selected.
Mounted ==
  /\ selectedUserId = NoPeer
  /\ messages = <<>>
  /\ loading = FALSE
  /\ uploading = FALSE
  /\ sends = <<>>
  /\ loads = <<>>
  /\ seenReqs = {}
  /\ db = <<>>
  /\ inbox = {}
  /\ handled = {}
  /\ clock = 0
  /\ reloaded = FALSE
  /\ onNewMessageRef = NoCallback
  /\ calls = {}
  /\ channelRef = NoPeer
  /\ typingChannelRef = NoPeer
  /\ channels = {}
  /\ typingUsers = {}
  /\ presenceState = {}
  /\ tracked = [p \in Peers |-> {}]
  /\ users = <<>>
  /\ usersLoading = FALSE
  /\ fetches = <<>>
  /\ profiles = [p \in Peers \cup {Me} |-> Profile(p, FALSE, 0)]
  /\ profileEvents = {}
  /\ user = NoUser
  /\ authSession = NoUser
  /\ checked = FALSE
  /\ visibilityState = "visible"
  /\ listeners = NoUser
  /\ heartbeat = NoUser
  /\ deferred = {}
  /\ writes = <<>>
  /\ signOutPc = "idle"
  /\ page = "open"
  /\ profile = NoUser
  /\ authLoading = TRUE
  /\ profileFetches = {}
  /\ signInPc = "idle"
  /\ returned = NoResult
  /\ selectedUser = NoProfile
  /\ permission = "default"
  /\ permissionPc = "mount"
  /\ shown = <<>>
  /\ keyed = <<>>
  /\ newMessage = <<>>
  /\ selectedFile = FALSE
  /\ typingTimeoutRef = NoTimer
  /\ timers = {}
  /\ timerSeq = 0
  /\ announced = <<>>

\* One conversation: the user selects B once and stays there; B and C write.
InitPair ==
  /\ Mounted
  /\ scope = [select |-> {"B"}, acts |-> 1, sends |-> PairSends, msgs |-> PairMsgs,
              callbacks |-> 0, calls |-> 0, fetches |-> 0, updates |-> 0,
              writes |-> 0, signins |-> 0, clients |-> 0, timers |-> 0,
              announces |-> 0]

\* The user moves between B and C.
InitSwitch ==
  /\ Mounted
  /\ scope = [select |-> Peers, acts |-> SwitchActs, sends |-> SwitchSends,
              msgs |-> SwitchMsgs, callbacks |-> 0, calls |-> 0, fetches |-> 0, updates |-> 0,
              writes |-> 0, signins |-> 0, clients |-> 0, timers |-> 0,
              announces |-> 0]

\* The user stays with C while callbacks are registered; B and C write.
InitNotify ==
  /\ Mounted
  /\ scope = [select |-> {"C"}, acts |-> 1, sends |-> NotifySends,
              msgs |-> NotifyMsgs, callbacks |-> MaxCallbacks, calls |-> MaxCalls,
              fetches |-> 0, updates |-> 0,
              writes |-> 0, signins |-> 0, clients |-> 0, timers |-> 0,
              announces |-> 0]

\* The directory: searches and recent conversations while everybody writes
\* and the profiles change.
InitUsers ==
  /\ Mounted
  /\ scope = [select |-> {}, acts |-> 0, sends |-> 0, msgs |-> UsersMsgs,
              callbacks |-> 0, calls |-> 0, fetches |-> MaxFetches,
              updates |-> MaxUpdates,
              writes |-> 0, signins |-> 0, clients |-> 0, timers |-> 0,
              announces |-> 0]

\* System notifications of one conversation.
InitNotice ==
  /\ Mounted
  /\ scope = [select |-> {"B"}, acts |-> 1, sends |-> 0, msgs |-> NoticeMsgs,
              callbacks |-> 1, calls |-> NoticeCalls, fetches |-> 0,
              updates |-> 0,
              writes |-> 0, signins |-> 0, clients |-> 0, timers |-> 0,
              announces |-> 0]

\* The sidebar and the chat window: the user picks peers from the directory
\* and searches.
InitPane ==
  /\ Mounted
  /\ scope = [select |-> Peers, acts |-> PaneActs, sends |-> 0, msgs |-> 0,
              callbacks |-> 0, calls |-> 0, fetches |-> PaneFetches,
              updates |-> MaxUpdates,
              writes |-> 0, signins |-> 0, clients |-> 0, timers |-> 0,
              announces |-> 0]

\* Presence: accounts sign in and out while the page is hidden, shown and
\* unloaded.
InitAuth ==
  /\ Mounted
  /\ scope = [select |-> {}, acts |-> 0, sends |-> 0, msgs |-> 0,
              callbacks |-> 0, calls |-> 0, fetches |-> 0, updates |-> 0,
              writes |-> MaxWrites, signins |-> MaxSignIns, clients |-> 0,
              timers |-> 0, announces |-> 0]

\* Clients name the typing channel of their conversation.
InitKey ==
  /\ Mounted
  /\ scope = [select |-> {}, acts |-> 0, sends |-> 0, msgs |-> 0,
              callbacks |-> 0, calls |-> 0, fetches |-> 0, updates |-> 0,
              writes |-> 0, signins |-> 0, clients |-> MaxClients,
              timers |-> 0, announces |-> 0]

\* The chat window: the user types, attaches and sends.
InitInput ==
  /\ Mounted
  /\ scope = [select |-> {}, acts |-> 0, sends |-> 0, msgs |-> 0,
              callbacks |-> 0, calls |-> 0, fetches |-> 0, updates |-> 0,
              writes |-> 0, signins |-> 0, clients |-> 0,
              timers |-> MaxTimers, announces |-> MaxAnnounces]

\* The user moves between B and C while everybody types.
InitTyping ==
  /\ Mounted
  /\ scope = [select |-> Peers, acts |-> TypingActs, sends |-> 0, msgs |-> 0,
              callbacks |-> 0, calls |-> 0, fetches |-> 0, updates |-> 0,
              writes |-> 0, signins |-> 0, clients |-> 0, timers |-> 0,
              announces |-> 0]

\* ------------------------------------------------------- messages table
\* A row as the table stores it; created_at (DEFAULT now(), the server's clock)
\* follows the insertion order.
Row(n, from, to, text, file) ==
  [id |-> ServerId(n), sender_id |-> from, receiver_id |-> to, text |-> text,
   seen |-> FALSE, file |-> file, created_at |-> n]

\* The INSERT event of a row on the messages channel created for peer, and
\* payload.new of an event.
Event(row, peer) ==
  [id |-> row.id, sender_id |-> row.sender_id, receiver_id |-> row.receiver_id,
   text |-> row.text, seen |-> row.seen, file |-> row.file,
   created_at |-> row.created_at, channel |-> peer]
Payload(e) ==
  [id |-> e.id, sender_id |-> e.sender_id, receiver_id |-> e.receiver_id,
   text |-> e.text, seen |-> e.seen, file |-> e.file, created_at |-> e.created_at]

Channel(kind, peer) == [kind |-> kind, peer |-> peer]

\* insert(newMessage): the row is stored and its INSERT event is published to
\* every messages subscription that is open at that moment (the channel has
\* no filter).
Insert(from, to, text, file) ==
  LET row == Row(Len(db) + 1, from, to, text, file) IN
  /\ Len(db) < scope.msgs
  /\ db' = Append(db, row)
  /\ inbox' = inbox \cup {Event(row, c.peer) :
                           c \in {x \in channels : x.kind = "messages"}}

\* select ... or(and(sender=me,receiver=peer),and(sender=peer,receiver=me))
\* order by created_at ascending.
History(peer) == SelectSeq(db, LAMBDA m : InPair(m, Me, peer))

\* update({seen: true}).eq(sender_id, peer).eq(receiver_id, me).eq(seen, false)
\* (variant: without the sender filter)
MarkSeenRowsAnySender(peer) ==
  [i \in 1..Len(db) |->
     IF db[i].receiver_id = Me /\ ~db[i].seen
     THEN [db[i] EXCEPT !.seen = TRUE] ELSE db[i]]
MarkSeenRows(peer) ==
  [i \in 1..Len(db) |->
     IF db[i].sender_id = peer /\ db[i].receiver_id = Me /\ ~db[i].seen
     THEN [db[i] EXCEPT !.seen = TRUE] ELSE db[i]]

\* ------------------------------------------------------------ timeline
\* The optimistic message of sendMessage; created_at is the client's clock.
Optimistic(ms, to, text, fileData) ==
  [id |-> TempId(ms), sender_id |-> Me, receiver_id |-> to, text |-> text,
   seen |-> FALSE, file |-> fileData, created_at |-> ms]

\* setMessages(prev => [...prev, optimisticMessage])
AppendOptimistic(prev, m) == Append(prev, m)

\* setMessages(prev => prev.filter(m => m.id !== optimisticMessage.id))
\* (variant: the filter keeps everything)
RollbackNothing(prev, id) == prev
Rollback(prev, id) == SelectSeq(prev, LAMBDA m : m.id # id)

\* The updater of the INSERT handler.
\* (variant: without the duplicate guard)
ReconcileNoGuard(prev, newMsg) ==
  Append(SelectSeq(prev, LAMBDA m : ~IsTemp(m.id)), newMsg)
\* (variant: the placeholders are kept)
ReconcileKeepTemps(prev, newMsg) ==
  IF HasId(prev, newMsg.id) THEN prev ELSE Append(prev, newMsg)
Reconcile(prev, newMsg) ==
  IF HasId(prev, newMsg.id) THEN prev
  ELSE Append(SelectSeq(prev, LAMBDA m : ~IsTemp(m.id)), newMsg)

\* sendMessage after its insert: if (error) roll the optimistic message back.
\* (variant: the placeholder is dropped whatever the result)
AfterInsertEager(prev, id, error) == Rollback(prev, id)
AfterInsert(prev, id, error) == IF error THEN Rollback(prev, id) ELSE prev

\* if (!error && data) setMessages(data)
\* (variant: the rows are added to what the timeline holds)
ApplyHistoryMerge(prev, data, error) == IF ~error THEN prev \o data ELSE prev
ApplyHistory(prev, data, error) == IF ~error THEN data ELSE prev

\* ----------------------------------------------------------------- actions
\* Date.now() never runs backwards: a reading is the last one or a later one.
Now == clock..MaxClock

\* A sendMessage call that returned keeps only what it returned and how it ended.
Finished(path) ==
  [pc |-> "done", text |-> <<>>, file |-> FALSE, receiver |-> NoPeer,
   tempId |-> TempId(0), returned |-> "undefined", path |-> path]

\* A sendMessage call suspended at an await.
Suspended(pc, text, file, receiver, tempId) ==
  [pc |-> pc, text |-> text, file |-> file, receiver |-> receiver,
   tempId |-> tempId, returned |-> "pending", path |-> "none"]

\* The cleanup of the subscription effect: channelRef.current?.unsubscribe()
\* and typingChannelRef.current?.unsubscribe(), which close the subscriptions
\* the refs point to.
\* (variant: the cleanup unsubscribes nothing)
CleanupNothing(open, ref, tref) == open
Cleanup(open, ref, tref) ==
  open \ {Channel("messages", ref), Channel("typing", tref)}

\* The body of the effect creates and subscribes the two channels of the pair.
Subscribe(open, p) == open \cup {Channel("messages", p), Channel("typing", p)}

\* A presence of a typing channel: what track() announces.
Presence(u, isTyping) == [profileId |-> u, isTyping |-> isTyping]

\* handleSelectUser(p), then the subscription effect of useChat: the cleanup
\* of the previous run unsubscribes, then loadMessages(), markAsSeen() and the
\* new subscriptions. Events of a subscription that is closed are not handled
\* any more, and the local presence leaves a typing channel that is closed.
SelectUser(p) ==
  LET kept == Cleanup(channels, channelRef, typingChannelRef) IN
  /\ p \in scope.select
  /\ p # selectedUserId
  /\ Len(loads) < scope.acts
  /\ selectedUserId' = p
  /\ channels' = Subscribe(kept, p)
  /\ channelRef' = p
  /\ typingChannelRef' = p
  /\ inbox' = {e \in inbox : Channel("messages", e.channel) \in kept}
  /\ handled' = {e \in handled : Channel("messages", e.channel) \in kept}
  /\ presenceState' = {}
  /\ tracked' = [q \in Peers |->
                   IF Channel("typing", q) \in channels \ kept
                   THEN {r \in tracked[q] : r.profileId # Me} ELSE tracked[q]]
  /\ loading' = TRUE
  /\ loads' = Append(loads, [peer |-> p, pc |-> "sent", data |-> <<>>])
  /\ seenReqs' = seenReqs \cup {p}
  /\ selectedUser' = SelectedUserEffect(p, users, selectedUser)
  /\ UNCHANGED <<messages, uploading, sends, db, clock, reloaded, scope,
                 notifyVars, typingUsers, usersVars, authVars, keyVars,
                 inputVars, noticeVars>>

\* The history query of load i runs on the server.
LoadQuery(i) ==
  /\ loads[i].pc = "sent"
  /\ loads' = [loads EXCEPT ![i].pc = "answered", ![i].data = History(loads[i].peer)]
  /\ UNCHANGED <<selectedUserId, messages, loading, uploading, sends, seenReqs,
                 db, inbox, handled, clock, reloaded, scope,
                 notifyVars, subsVars, typingVars, usersVars, pageVars>>

\* loadMessages resumes after its await with the rows.
LoadOk(i) ==
  /\ loads[i].pc = "answered"
  /\ messages' = ApplyHistory(messages, loads[i].data, FALSE)
  /\ loading' = FALSE
  /\ loads' = [loads EXCEPT ![i].pc = "done", ![i].data = <<>>]
  /\ reloaded' = (reloaded \/ Pending(messages) # <<>>)
  /\ UNCHANGED <<selectedUserId, uploading, sends, seenReqs, db, inbox, handled,
                 clock, scope,
                 notifyVars, subsVars, typingVars, usersVars, pageVars>>

\* loadMessages resumes after its await with an error.
LoadFail(i) ==
  /\ loads[i].pc = "sent"
  /\ messages' = ApplyHistory(messages, <<>>, TRUE)
  /\ loading' = FALSE
  /\ loads' = [loads EXCEPT ![i].pc = "done"]
  /\ UNCHANGED <<selectedUserId, uploading, sends, seenReqs, db, inbox, handled,
                 clock, reloaded, scope,
                 notifyVars, subsVars, typingVars, usersVars, pageVars>>

\* sendMessage(textOrOptions), up to its first await.
SendMessage(text, file, now) ==
  /\ Len(sends) < scope.sends
  /\ selectedUserId # NoPeer
  /\ IF Trim(text) = <<>> /\ ~file
     THEN /\ sends' = Append(sends, Finished("noop"))
          /\ UNCHANGED <<messages, uploading, clock>>
     ELSE IF file
     THEN /\ uploading' = TRUE
          /\ sends' = Append(sends,
                 Suspended("upload", text, TRUE, selectedUserId, TempId(0)))
          /\ UNCHANGED <<messages, clock>>
     ELSE /\ clock' = now
          /\ messages' = AppendOptimistic(messages,
                 Optimistic(now, selectedUserId, Trim(text), FALSE))
          /\ uploading' = FALSE
          /\ sends' = Append(sends,
                 Suspended("write", Trim(text), FALSE, selectedUserId, TempId(now)))
  /\ UNCHANGED <<selectedUserId, loading, loads, seenReqs, db, inbox, handled,
                 reloaded, scope,
                 notifyVars, subsVars, typingVars, usersVars, pageVars>>

\* uploadFile resolves (fileData, or null on failure) and sendMessage resumes.
UploadDone(s, ok, now) ==
  /\ sends[s].pc = "upload"
  /\ IF ~ok /\ Trim(sends[s].text) = <<>>
     THEN /\ uploading' = FALSE
          /\ sends' = [sends EXCEPT ![s] = Finished("abandoned")]
          /\ UNCHANGED <<messages, clock>>
     ELSE /\ clock' = now
          /\ messages' = AppendOptimistic(messages,
                 Optimistic(now, sends[s].receiver, Trim(sends[s].text), ok))
          /\ uploading' = FALSE
          /\ sends' = [sends EXCEPT ![s] =
                 Suspended("write", Trim(sends[s].text), ok, sends[s].receiver,
                           TempId(now))]
  /\ UNCHANGED <<selectedUserId, loading, loads, seenReqs, db, inbox, handled,
                 reloaded, scope,
                 notifyVars, subsVars, typingVars, usersVars, pageVars>>

\* The insert succeeds: the row is stored, its event published, and
\* sendMessage resumes with no error (it changes nothing then).
WriteOk(s) ==
  /\ sends[s].pc = "write"
  /\ Insert(Me, sends[s].receiver, sends[s].text, sends[s].file)
  /\ messages' = AfterInsert(messages, sends[s].tempId, FALSE)
  /\ sends' = [sends EXCEPT ![s] = Finished("ok")]
  /\ UNCHANGED <<selectedUserId, loading, uploading, loads, seenReqs, handled,
                 clock, reloaded, scope,
                 notifyVars, subsVars, typingVars, usersVars, pageVars>>

\* The insert fails: sendMessage resumes with an error.
WriteFail(s) ==
  /\ sends[s].pc = "write"
  /\ messages' = AfterInsert(messages, sends[s].tempId, TRUE)
  /\ sends' = [sends EXCEPT ![s] = Finished("failed")]
  /\ UNCHANGED <<selectedUserId, loading, uploading, loads, seenReqs, db, inbox,
                 handled, clock, reloaded, scope,
                 notifyVars, subsVars, typingVars, usersVars, pageVars>>

\* A peer writes a message to the local user.
PeerSend(p) ==
  /\ Insert(p, Me, <<"h">>, FALSE)
  /\ UNCHANGED <<selectedUserId, messages, loading, uploading, sends, loads,
                 seenReqs, handled, clock, reloaded, scope,
                 notifyVars, subsVars, typingVars, usersVars, pageVars>>

\* How often a callback has been invoked for the message id.
CallCount(id) == Cardinality({c \in calls : c[2] = id})

\* sendNotification returns early unless the permission is granted and the
\* document is not visible.
\* (variant: the visibility of the document is not looked at)
MutedByPermission(perm, visibility) == perm # "granted"
Muted(perm, visibility) == perm # "granted" \/ visibility = "visible"

\* new Notification(title, {..., tag}), open until it is closed.
Notice(tag) == [tag |-> tag, open |-> TRUE]

\* sendNotification(title, {body, tag}): the constructor may throw, which is
\* caught and logged.
SendNotification(tag) ==
  IF Muted(permission, visibilityState)
  THEN shown' = shown
  ELSE \E thrown \in BOOLEAN :
         shown' = IF thrown THEN shown ELSE Append(shown, Notice(tag))

\* The handler of the INSERT subscription created for a peer: its closure holds
\* that peer, and markAsSeen of that peer. The callback registered by Chat
\* calls sendNotification with the sender as the tag.
OnInsert(e) ==
  LET newMsg == Payload(e)
      peer == e.channel
  IN
  IF InPair(newMsg, Me, peer)
  THEN /\ messages' = Reconcile(messages, newMsg)
       /\ seenReqs' = IF newMsg.receiver_id = Me
                      THEN seenReqs \cup {peer} ELSE seenReqs
       /\ IF newMsg.sender_id # Me /\ onNewMessageRef # NoCallback
          THEN /\ CallCount(newMsg.id) < scope.calls
               /\ calls' = calls \cup {<<onNewMessageRef, newMsg.id,
                                          CallCount(newMsg.id) + 1>>}
               /\ SendNotification(newMsg.sender_id)
          ELSE UNCHANGED <<calls, shown>>
  ELSE UNCHANGED <<messages, seenReqs, calls, shown>>

\* The change stream delivers an event for the first time.
Deliver(e) ==
  /\ e \in inbox
  /\ OnInsert(e)
  /\ inbox' = inbox \ {e}
  /\ handled' = handled \cup {e}
  /\ UNCHANGED <<selectedUserId, loading, uploading, sends, loads, db, clock,
                 reloaded, scope, onNewMessageRef, subsVars, typingVars,
                 usersVars, authVars, keyVars, inputVars, paneVars,
                 permission, permissionPc>>

\* The change stream delivers an event again (at-least-once).
Redeliver(e) ==
  /\ e \in handled
  /\ OnInsert(e)
  /\ UNCHANGED <<selectedUserId, loading, uploading, sends, loads, db, inbox,
                 handled, clock, reloaded, scope, onNewMessageRef, subsVars,
                 typingVars, usersVars, authVars, keyVars, inputVars, paneVars,
                 permission, permissionPc>>

\* A markAsSeen update reaches the table (one that fails never does).
SeenUpdate(p) ==
  /\ p \in seenReqs
  /\ seenReqs' = seenReqs \ {p}
  /\ db' = MarkSeenRows(p)
  /\ UNCHANGED <<selectedUserId, messages, loading, uploading, sends, loads,
                 inbox, handled, clock, reloaded, scope,
                 notifyVars, subsVars, typingVars, usersVars, pageVars>>

\* A markAsSeen update fails: nothing awaits its result.
SeenFail(p) ==
  /\ p \in seenReqs
  /\ seenReqs' = seenReqs \ {p}
  /\ UNCHANGED <<selectedUserId, messages, loading, uploading, sends, loads, db,
                 inbox, handled, clock, reloaded, scope,
                 notifyVars, subsVars, typingVars, usersVars, pageVars>>

Next ==
  \/ \E p \in Peers : SelectUser(p)
  \/ \E i \in DOMAIN loads : LoadQuery(i)
  \/ \E i \in DOMAIN loads : LoadOk(i)
  \/ \E i \in DOMAIN loads : LoadFail(i)
  \/ \E text \in Texts, file \in BOOLEAN, now \in Now : SendMessage(text, file, now)
  \/ \E s \in DOMAIN sends, ok \in BOOLEAN, now \in Now : UploadDone(s, ok, now)
  \/ \E s \in DOMAIN sends : WriteOk(s)
  \/ \E s \in DOMAIN sends : WriteFail(s)
  \/ \E p \in Peers : PeerSend(p)
  \/ \E e \in inbox : Deliver(e)
  \/ \E e \in handled : Redeliver(e)
  \/ \E p \in Peers : SeenUpdate(p)
  \/ \E p \in Peers : SeenFail(p)

\* One fixed pair.
SpecPair == InitPair /\ [][Next]_vars

\* Peer switches.
Spec == InitSwitch /\ [][Next]_vars

\* Peer switches in which no call stays suspended for ever: every upload, every
\* insert and every history query is answered, and the change stream delivers
\* every event it holds.
Uploaded == \E s \in DOMAIN sends, ok \in BOOLEAN, now \in Now : UploadDone(s, ok, now)
Written == \E s \in DOMAIN sends : WriteOk(s) \/ WriteFail(s)
Loaded == \E i \in DOMAIN loads : LoadQuery(i) \/ LoadOk(i) \/ LoadFail(i)
Delivered == \E e \in inbox : Deliver(e)
SpecLive ==
  /\ InitSwitch
  /\ [][Next]_vars
  /\ WF_vars(Uploaded)
  /\ WF_vars(Written)
  /\ WF_vars(Loaded)
  /\ WF_vars(Delivered)

\* setOnNewMessage(callback): the new callback replaces the one registered.
SetOnNewMessage ==
  /\ onNewMessageRef < scope.callbacks
  /\ onNewMessageRef' = onNewMessageRef + 1
  /\ UNCHANGED <<chatVars, calls, subsVars, typingVars, usersVars, pageVars>>

NextNotify == Next \/ SetOnNewMessage

\* One conversation with the notification callback registered.
SpecNotify == InitNotify /\ [][NextNotify]_vars

\* The mount effect of useNotifications: setPermission(Notification.permission).
ReadPermission(p) ==
  /\ permissionPc = "mount"
  /\ permission' = p
  /\ permissionPc' = "idle"
  /\ UNCHANGED <<chatVars, notifyVars, subsVars, typingVars, usersVars, authVars,
                 keyVars, inputVars, paneVars, shown>>

\* The "Enable" action of the toast Chat shows while the permission is
\* 'default': requestPermission(), up to its await.
RequestPermission ==
  /\ permissionPc = "idle"
  /\ permission = "default"
  /\ permissionPc' = "asked"
  /\ UNCHANGED <<chatVars, notifyVars, subsVars, typingVars, usersVars, authVars,
                 keyVars, inputVars, paneVars, permission, shown>>

\* Notification.requestPermission() resolves: setPermission(result).
PermissionResult(result) ==
  /\ permissionPc = "asked"
  /\ permission' = result
  /\ permissionPc' = "idle"
  /\ UNCHANGED <<chatVars, notifyVars, subsVars, typingVars, usersVars, authVars,
                 keyVars, inputVars, paneVars, shown>>

\* Notification.requestPermission() rejects: the error is logged.
PermissionError ==
  /\ permissionPc = "asked"
  /\ permissionPc' = "idle"
  /\ UNCHANGED <<chatVars, notifyVars, subsVars, typingVars, usersVars, authVars,
                 keyVars, inputVars, paneVars, permission, shown>>

\* notification.close(), by the timer of 5 seconds or by a click.
CloseNotice(i) ==
  /\ shown[i].open
  /\ shown' = [shown EXCEPT ![i].open = FALSE]
  /\ UNCHANGED <<chatVars, notifyVars, subsVars, typingVars, usersVars, authVars,
                 keyVars, inputVars, paneVars, permission, permissionPc>>

\* The sync handler of the typing channel: who is typing, the local user aside.
\* (variant: the names are added to the set the state holds)
TypingAccumulated(state, me) ==
  typingUsers \cup {r.profileId : r \in {x \in state : x.isTyping /\ x.profileId # me}}
TypingFrom(state, me) ==
  {r.profileId : r \in {x \in state : x.isTyping /\ x.profileId # me}}

\* sendTypingIndicator(isTyping): track() replaces the local presence on the
\* typing channel the ref points to.
SendTypingIndicator(isTyping) ==
  /\ typingChannelRef # NoPeer
  /\ tracked' = [tracked EXCEPT ![typingChannelRef] =
                   {r \in @ : r.profileId # Me} \cup {Presence(Me, isTyping)}]
  /\ UNCHANGED <<chatVars, notifyVars, subsVars, typingUsers, presenceState,
                 usersVars, pageVars>>

\* A client of peer p announces itself on the typing channel it shares with
\* the local user, or leaves it.
PeerTrack(p, isTyping) ==
  /\ Presence(p, isTyping) \notin tracked[p]
  /\ tracked' = [tracked EXCEPT ![p] = @ \cup {Presence(p, isTyping)}]
  /\ UNCHANGED <<chatVars, notifyVars, subsVars, typingUsers, presenceState,
                 usersVars, pageVars>>

PeerUntrack(p, isTyping) ==
  /\ Presence(p, isTyping) \in tracked[p]
  /\ tracked' = [tracked EXCEPT ![p] = @ \ {Presence(p, isTyping)}]
  /\ UNCHANGED <<chatVars, notifyVars, subsVars, typingUsers, presenceState,
                 usersVars, pageVars>>

\* The typing channel syncs: the client takes the channel's presences and the
\* 'sync' handler rebuilds typingUsers from presenceState().
PresenceSync ==
  /\ Channel("typing", typingChannelRef) \in channels
  /\ presenceState' = tracked[typingChannelRef]
  /\ typingUsers' = TypingFrom(presenceState', Me)
  /\ UNCHANGED <<chatVars, notifyVars, subsVars, tracked, usersVars, pageVars>>

NextTyping ==
  \/ \E p \in Peers : SelectUser(p)
  \/ \E isTyping \in BOOLEAN : SendTypingIndicator(isTyping)
  \/ \E p \in Peers, isTyping \in BOOLEAN : PeerTrack(p, isTyping)
  \/ \E p \in Peers, isTyping \in BOOLEAN : PeerUntrack(p, isTyping)
  \/ PresenceSync

\* Peer switches while the participants type.
SpecTyping == InitTyping /\ [][NextTyping]_vars

\* --------------------------------------------------------------- directory
\* ilike('username', `%${query}%`): the name contains the query.
Contains(name, q) ==
  \E i \in 1..(Len(name) - Len(q) + 1) : SubSeq(name, i, i + Len(q) - 1) = q

\* The rows a select may return for a set of ids: it has no ORDER BY, so the
\* rows come in any order.
Rows(ids) ==
  {r \in [1..Cardinality(ids) -> {profiles[p] : p \in ids}] :
     \A i, j \in DOMAIN r : i # j => r[i] # r[j]}

\* from('profiles').ilike('username', ...).neq('user_id', currentUserId)
SearchResult(q) ==
  Rows({p \in DOMAIN profiles : Contains(Username[p], q) /\ p # Me})

\* from('messages').select('receiver_id').eq('sender_id', profileId), and
\* select('sender_id').eq('receiver_id', profileId), as the Set of ids.
\* (variant: the senders of all rows)
AllSenders(profileId) == {db[i].sender_id : i \in DOMAIN db}
SentTo(profileId) ==
  {db[i].receiver_id : i \in {j \in DOMAIN db : db[j].sender_id = profileId}}
ReceivedFrom(profileId) ==
  {db[i].sender_id : i \in {j \in DOMAIN db : db[j].receiver_id = profileId}}

\* setUsers(prev => prev.map(u => u.id === updated.id ? updated : u))
\* (variant: a profile the directory does not hold is added to it)
PatchOrInsert(prev, updated) ==
  IF \E i \in DOMAIN prev : prev[i].id = updated.id
  THEN [i \in DOMAIN prev |-> IF prev[i].id = updated.id THEN updated ELSE prev[i]]
  ELSE Append(prev, updated)
Patch(prev, updated) ==
  [i \in DOMAIN prev |-> IF prev[i].id = updated.id THEN updated ELSE prev[i]]

\* A call of searchUsers or getRecentConversations: where it stands, its
\* query, the ids it collected, whether its message queries returned data,
\* and the rows of its profiles query.
Call(kind, pc, q, ids, sentOk, receivedOk, data, path) ==
  [kind |-> kind, pc |-> pc, q |-> q, ids |-> ids, sentOk |-> sentOk,
   receivedOk |-> receivedOk, data |-> data, path |-> path]

\* A call that returned keeps only its kind and how it ended.
Returned(kind, path) == Call(kind, "done", <<>>, {}, TRUE, TRUE, <<>>, path)

\* searchUsers(query), up to its await.
SearchUsers(q) ==
  /\ Len(fetches) < scope.fetches
  /\ IF Trim(q) = <<>>
     THEN /\ fetches' = Append(fetches, Returned("search", "noop"))
          /\ UNCHANGED usersLoading
     ELSE /\ usersLoading' = TRUE
          /\ fetches' = Append(fetches,
                 Call("search", "sent", q, {}, TRUE, TRUE, <<>>, "none"))
  /\ UNCHANGED <<chatVars, notifyVars, subsVars, typingVars, users, profiles,
                 profileEvents, pageVars>>

\* getRecentConversations(profileId), up to its first await.
GetRecentConversations ==
  /\ Len(fetches) < scope.fetches
  /\ usersLoading' = TRUE
  /\ fetches' = Append(fetches,
         Call("recents", "sent1", <<>>, {}, TRUE, TRUE, <<>>, "none"))
  /\ UNCHANGED <<chatVars, notifyVars, subsVars, typingVars, users, profiles,
                 profileEvents, pageVars>>

\* The query of the sent messages resolves (with no data when it fails) and
\* the query of the received messages is issued.
RecentsSent(f, ok) ==
  /\ fetches[f].pc = "sent1"
  /\ fetches' = [fetches EXCEPT ![f].pc = "sent2", ![f].sentOk = ok,
                                 ![f].ids = IF ok THEN SentTo(Me) ELSE {}]
  /\ UNCHANGED <<chatVars, notifyVars, subsVars, typingVars, users, usersLoading,
                 profiles, profileEvents, pageVars>>

\* The query of the received messages resolves: with no id collected the
\* directory is emptied and the call returns, otherwise the profiles query is
\* issued.
RecentsReceived(f, ok) ==
  LET userIds == fetches[f].ids \cup (IF ok THEN ReceivedFrom(Me) ELSE {}) IN
  /\ fetches[f].pc = "sent2"
  /\ IF userIds = {}
     THEN /\ users' = <<>>
          /\ usersLoading' = FALSE
          /\ fetches' = [fetches EXCEPT ![f] =
                 Returned("recents", IF fetches[f].sentOk /\ ok
                                     THEN "empty" ELSE "emptied")]
     ELSE /\ fetches' = [fetches EXCEPT ![f].pc = "sent", ![f].receivedOk = ok,
                                        ![f].ids = userIds]
          /\ UNCHANGED <<users, usersLoading>>
  /\ selectedUser' = SelectedUserEffect(selectedUserId, users', selectedUser)
  /\ UNCHANGED <<chatVars, notifyVars, subsVars, typingVars, profiles,
                 profileEvents, authVars, keyVars, inputVars, noticeVars>>

\* The profiles query of a call runs on the server.
FetchQuery(f) ==
  /\ fetches[f].pc = "sent"
  /\ \E rows \in (IF fetches[f].kind = "search"
                   THEN SearchResult(fetches[f].q) ELSE Rows(fetches[f].ids)) :
       fetches' = [fetches EXCEPT ![f].pc = "answered", ![f].data = rows]
  /\ UNCHANGED <<chatVars, notifyVars, subsVars, typingVars, users, usersLoading,
                 profiles, profileEvents, pageVars>>

\* The call resumes with the rows: setUsers(data), setLoading(false).
FetchOk(f) ==
  /\ fetches[f].pc = "answered"
  /\ users' = fetches[f].data
  /\ usersLoading' = FALSE
  /\ fetches' = [fetches EXCEPT ![f] = Returned(fetches[f].kind, "ok")]
  /\ selectedUser' = SelectedUserEffect(selectedUserId, users', selectedUser)
  /\ UNCHANGED <<chatVars, notifyVars, subsVars, typingVars, profiles,
                 profileEvents, authVars, keyVars, inputVars, noticeVars>>

\* The call resumes with an error: setLoading(false).
FetchFail(f) ==
  /\ fetches[f].pc = "sent"
  /\ usersLoading' = FALSE
  /\ fetches' = [fetches EXCEPT ![f] = Returned(fetches[f].kind, "failed")]
  /\ UNCHANGED <<chatVars, notifyVars, subsVars, typingVars, users, profiles,
                 profileEvents, pageVars>>

\* Somebody's client updates its row of the profiles table (online status);
\* the UPDATE event is published to the profiles subscription.
ProfileChange(p, online) ==
  LET updated == Profile(p, online, profiles[p].last_seen + 1) IN
  /\ profiles[Me].last_seen + profiles["B"].last_seen + profiles["C"].last_seen
       < scope.updates
  /\ profiles' = [profiles EXCEPT ![p] = updated]
  /\ profileEvents' = profileEvents \cup {updated}
  /\ UNCHANGED <<chatVars, notifyVars, subsVars, typingVars, users, usersLoading,
                 fetches, pageVars>>

\* The handler of the profiles subscription.
OnProfileUpdate(updated) ==
  /\ updated \in profileEvents
  /\ users' = Patch(users, updated)
  /\ profileEvents' = profileEvents \ {updated}
  /\ selectedUser' = SelectedUserEffect(selectedUserId, users', selectedUser)
  /\ UNCHANGED <<chatVars, notifyVars, subsVars, typingVars, usersLoading,
                 fetches, profiles, authVars, keyVars, inputVars, noticeVars>>

\* The local user writes to a peer from somewhere else (an earlier session).
OwnSend(p) ==
  /\ Insert(Me, p, <<"h">>, FALSE)
  /\ UNCHANGED <<selectedUserId, messages, loading, uploading, sends, loads,
                 seenReqs, handled, clock, reloaded, scope,
                 notifyVars, subsVars, typingVars, usersVars, pageVars>>

NextUsers ==
  \/ \E q \in Queries : SearchUsers(q)
  \/ GetRecentConversations
  \/ \E f \in DOMAIN fetches, ok \in BOOLEAN : RecentsSent(f, ok)
  \/ \E f \in DOMAIN fetches, ok \in BOOLEAN : RecentsReceived(f, ok)
  \/ \E f \in DOMAIN fetches : FetchQuery(f)
  \/ \E f \in DOMAIN fetches : FetchOk(f)
  \/ \E f \in DOMAIN fetches : FetchFail(f)
  \/ \E p \in Peers \cup {Me}, online \in BOOLEAN : ProfileChange(p, online)
  \/ \E updated \in profileEvents : OnProfileUpdate(updated)
  \/ \E p \in Peers : PeerSend(p)
  \/ \E p \in Peers : OwnSend(p)

\* The directory of the sidebar.
SpecUsers == InitUsers /\ [][NextUsers]_vars

\* A click on an entry of the sidebar: the entries are those of the
\* directory, and the click calls handleSelectUser with the entry's id.
OnSelectUser(p) ==
  /\ \E i \in DOMAIN users : users[i].id = p
  /\ SelectUser(p)

NextPane ==
  \/ \E p \in Peers : OnSelectUser(p)
  \/ \E i \in DOMAIN loads : LoadQuery(i)
  \/ \E i \in DOMAIN loads : LoadOk(i)
  \/ \E i \in DOMAIN loads : LoadFail(i)
  \/ \E q \in Queries : SearchUsers(q)
  \/ GetRecentConversations
  \/ \E f \in DOMAIN fetches, ok \in BOOLEAN : RecentsSent(f, ok)
  \/ \E f \in DOMAIN fetches, ok \in BOOLEAN : RecentsReceived(f, ok)
  \/ \E f \in DOMAIN fetches : FetchQuery(f)
  \/ \E f \in DOMAIN fetches : FetchOk(f)
  \/ \E f \in DOMAIN fetches : FetchFail(f)
  \/ \E p \in Peers \cup {Me}, online \in BOOLEAN : ProfileChange(p, online)
  \/ \E updated \in profileEvents : OnProfileUpdate(updated)

\* The sidebar and the chat window: the user picks peers from the directory
\* while searches and recent conversations replace it.
SpecPane == InitPane /\ [][NextPane]_vars

\* ---------------------------------------------------------------- presence
\* useAuth (src/unnamed/part_002). A presence request: whose profile, the body
\* { online, last_seen: new Date().toISOString() }, how it travels, which code
\* dispatched it and whether its response has come.
Write(u, online, via, by) ==
  [user |-> u, online |-> online, last_seen |-> "now", via |-> via, by |-> by,
   status |-> "sent"]

Room == Len(writes) < scope.writes

\* supabase.from('profiles').update({ online, last_seen }).eq('user_id', userId)
UpdateOnlineStatus(u, online, by) == Append(writes, Write(u, online, "client", by))

\* navigator.sendBeacon(url, new Blob([body]))
SendBeaconDropped(u) == writes
SendBeacon(u) == Append(writes, Write(u, FALSE, "beacon", "hidden"))

\* fetch(url, { method: 'PATCH', headers, body, keepalive: true })
FetchKeepalive(u) == Append(writes, Write(u, FALSE, "keepalive", "unload"))

\* The cleanup of the visibility effect: both listeners removed, interval
\* cleared.
TeardownKeepTimer == [listeners |-> NoUser, heartbeat |-> heartbeat]
Teardown == [listeners |-> NoUser, heartbeat |-> NoUser]

\* The visibility effect run for user u, after the cleanup of its last run.
Tracker(u) == IF u = NoUser THEN Teardown ELSE [listeners |-> u, heartbeat |-> u]

\* setUser(u) and the effects that depend on user.
SetUser(u) ==
  /\ user' = u
  /\ listeners' = Tracker(u).listeners
  /\ heartbeat' = Tracker(u).heartbeat

\* getSession().then(...) of the mount effect, with the session s the client
\* found in its storage.
GetSession(s) ==
  /\ page = "open"
  /\ ~checked
  /\ checked' = TRUE
  /\ authSession' = s
  /\ SetUser(s)
  /\ IF s # NoUser
     THEN /\ Room
          /\ profileFetches' = profileFetches \cup {s}
          /\ writes' = UpdateOnlineStatus(s, TRUE, "session")
     ELSE UNCHANGED <<profileFetches, writes>>
  /\ authLoading' = FALSE
  /\ UNCHANGED <<chatVars, notifyVars, subsVars, typingVars, usersVars, keyVars,
                 inputVars, profile, signInPc, returned, visibilityState,
                 deferred, signOutPc, page,
                 paneVars, noticeVars>>

\* The onAuthStateChange callback called with the session the client holds
\* (a refreshed token, for one).
AuthEvent ==
  /\ page = "open"
  /\ checked
  /\ authSession # NoUser
  /\ SetUser(authSession)
  /\ deferred' = deferred \cup {authSession}
  /\ authLoading' = FALSE
  /\ UNCHANGED <<chatVars, notifyVars, subsVars, typingVars, usersVars, keyVars,
                 inputVars, profile, profileFetches, signInPc, returned,
                 authSession, checked, visibilityState, writes,
                 signOutPc, page,
                 paneVars, noticeVars>>

\* signIn with valid credentials: the client stores the session and calls the
\* onAuthStateChange callback, then signIn writes online = true and waits for
\* the answer.
SignIn(u) ==
  /\ page = "open"
  /\ checked
  /\ authSession = NoUser
  /\ signInPc = "idle"
  /\ Len(SelectSeq(writes, LAMBDA w : w.by = "signIn")) < scope.signins
  /\ Room
  /\ authSession' = u
  /\ SetUser(u)
  /\ deferred' = deferred \cup {u}
  /\ writes' = UpdateOnlineStatus(u, TRUE, "signIn")
  /\ signInPc' = "write"
  /\ authLoading' = FALSE
  /\ UNCHANGED <<chatVars, notifyVars, subsVars, typingVars, usersVars, keyVars,
                 inputVars, profile, profileFetches, returned, checked, visibilityState, signOutPc, page,
                 paneVars, noticeVars>>

\* The setTimeout(..., 0) callback of the onAuthStateChange callback.
DeferredFire(u) ==
  /\ page = "open"
  /\ u \in deferred
  /\ Room
  /\ deferred' = deferred \ {u}
  /\ writes' = UpdateOnlineStatus(u, TRUE, "auth")
  /\ profileFetches' = profileFetches \cup {u}
  /\ UNCHANGED <<chatVars, notifyVars, subsVars, typingVars, usersVars, keyVars,
                 inputVars, profile, authLoading, signInPc, returned, user, authSession, checked, visibilityState,
                 listeners, heartbeat, signOutPc, page,
                 paneVars, noticeVars>>

\* visibilitychange to hidden, and handleVisibilityChange if it is registered.
Hide ==
  /\ page = "open"
  /\ visibilityState = "visible"
  /\ visibilityState' = "hidden"
  /\ IF listeners # NoUser
     THEN Room /\ writes' = SendBeacon(listeners)
     ELSE writes' = writes
  /\ UNCHANGED <<chatVars, notifyVars, subsVars, typingVars, usersVars, keyVars,
                 inputVars, sessionVars, user, authSession, checked, listeners, heartbeat,
                 deferred, signOutPc, page,
                 paneVars, noticeVars>>

\* visibilitychange to visible, and handleVisibilityChange if it is registered.
Show ==
  /\ page = "open"
  /\ visibilityState = "hidden"
  /\ visibilityState' = "visible"
  /\ IF listeners # NoUser
     THEN Room /\ writes' = UpdateOnlineStatus(listeners, TRUE, "visible")
     ELSE writes' = writes
  /\ UNCHANGED <<chatVars, notifyVars, subsVars, typingVars, usersVars, keyVars,
                 inputVars, sessionVars, user, authSession, checked, listeners, heartbeat,
                 deferred, signOutPc, page,
                 paneVars, noticeVars>>

\* A tick of setInterval(..., 30000).
HeartbeatTick ==
  /\ page = "open"
  /\ heartbeat # NoUser
  /\ IF visibilityState = "visible"
     THEN Room /\ writes' = UpdateOnlineStatus(heartbeat, TRUE, "heartbeat")
     ELSE writes' = writes
  /\ UNCHANGED <<chatVars, notifyVars, subsVars, typingVars, usersVars, keyVars,
                 inputVars, sessionVars, user, authSession, checked, visibilityState,
                 listeners, heartbeat, deferred, signOutPc, page,
                 paneVars, noticeVars>>

\* beforeunload, handleBeforeUnload if it is registered, and the page is gone
\* with its timers.
BeforeUnload ==
  /\ page = "open"
  /\ page' = "closed"
  /\ IF listeners # NoUser
     THEN Room /\ writes' = FetchKeepalive(listeners)
     ELSE writes' = writes
  /\ listeners' = Teardown.listeners
  /\ heartbeat' = Teardown.heartbeat
  /\ deferred' = {}
  /\ profileFetches' = {}
  /\ UNCHANGED <<chatVars, notifyVars, subsVars, typingVars, usersVars, keyVars,
                 inputVars, profile, authLoading, signInPc, returned, user, authSession, checked, visibilityState,
                 signOutPc,
                 paneVars, noticeVars>>

\* signOut up to its first await.
SignOut ==
  /\ page = "open"
  /\ checked
  /\ signOutPc = "idle"
  /\ IF user # NoUser
     THEN /\ Room
          /\ writes' = UpdateOnlineStatus(user, FALSE, "signOut")
          /\ signOutPc' = "write"
     ELSE /\ writes' = writes
          /\ signOutPc' = "auth"
  /\ UNCHANGED <<chatVars, notifyVars, subsVars, typingVars, usersVars, keyVars,
                 inputVars, sessionVars, user, authSession, checked, visibilityState,
                 listeners, heartbeat, deferred, page,
                 paneVars, noticeVars>>

\* The write of by that its caller is waiting for.
Awaited(by) ==
  CHOOSE i \in DOMAIN writes : writes[i].by = by /\ writes[i].status = "sent"

\* The log once request i is answered: the error, if any, is dropped.
Answered(i, ok) == [writes EXCEPT ![i].status = IF ok THEN "ok" ELSE "failed"]

\* return { data, error: null } of signIn and return { error } of signOut; ok
\* tells whether the presence write of the call succeeded.
SignResultReporting(call, data, ok) ==
  [call |-> call, data |-> data, error |-> IF ok THEN "null" ELSE "presence"]
SignResult(call, data, ok) == [call |-> call, data |-> data, error |-> "null"]

\* The online update of signIn has answered, with or without an error; signIn
\* returns.
SignInWritten(ok) ==
  /\ page = "open"
  /\ signInPc = "write"
  /\ signInPc' = "idle"
  /\ writes' = Answered(Awaited("signIn"), ok)
  /\ returned' = SignResult("signIn", writes[Awaited("signIn")].user, ok)
  /\ UNCHANGED <<chatVars, notifyVars, subsVars, typingVars, usersVars, keyVars,
                 inputVars, profile, authLoading, profileFetches, user,
                 authSession, checked, visibilityState, listeners, heartbeat,
                 deferred, signOutPc, page,
                 paneVars, noticeVars>>

\* The profile query of fetchProfile has answered.
ProfileFetched(u, ok) ==
  /\ page = "open"
  /\ u \in profileFetches
  /\ profileFetches' = profileFetches \ {u}
  /\ profile' = IF ok THEN u ELSE profile
  /\ UNCHANGED <<chatVars, notifyVars, subsVars, typingVars, usersVars, keyVars,
                 inputVars, authLoading, signInPc, returned, user, authSession,
                 checked, visibilityState, listeners, heartbeat, deferred,
                 writes, signOutPc, page,
                 paneVars, noticeVars>>

\* The offline update of signOut has answered, with or without an error;
\* signOut calls supabase.auth.signOut().
SignOutWritten(ok) ==
  /\ page = "open"
  /\ signOutPc = "write"
  /\ signOutPc' = IF ok THEN "auth" ELSE "authAfterError"
  /\ writes' = Answered(Awaited("signOut"), ok)
  /\ UNCHANGED <<chatVars, notifyVars, subsVars, typingVars, usersVars, keyVars,
                 inputVars, sessionVars, user, authSession, checked,
                 visibilityState, listeners, heartbeat, deferred, page,
                 paneVars, noticeVars>>

\* supabase.auth.signOut() drops the session and calls the onAuthStateChange
\* callback with none; signOut returns.
SignedOut ==
  /\ page = "open"
  /\ signOutPc \in {"auth", "authAfterError"}
  /\ signOutPc' = "idle"
  /\ authSession' = NoUser
  /\ SetUser(NoUser)
  /\ profile' = NoUser
  /\ authLoading' = FALSE
  /\ returned' = SignResult("signOut", "null", signOutPc = "auth")
  /\ UNCHANGED <<chatVars, notifyVars, subsVars, typingVars, usersVars, keyVars,
                 inputVars, profileFetches, signInPc, checked, visibilityState,
                 deferred, writes, page,
                 paneVars, noticeVars>>

\* The response of a presence request nobody waits for, or whose page is gone.
WriteResolve(i, ok) ==
  /\ writes[i].status = "sent"
  /\ writes[i].by \in {"signIn", "signOut"} => page = "closed"
  /\ writes' = Answered(i, ok)
  /\ UNCHANGED <<chatVars, notifyVars, subsVars, typingVars, usersVars, keyVars,
                 inputVars, sessionVars, user, authSession, checked,
                 visibilityState, listeners, heartbeat, deferred, signOutPc, page,
                 paneVars, noticeVars>>

NextAuth ==
  \/ \E s \in Accounts \cup {NoUser} : GetSession(s)
  \/ AuthEvent
  \/ \E u \in Accounts : SignIn(u)
  \/ \E u \in Accounts : DeferredFire(u)
  \/ Hide
  \/ Show
  \/ HeartbeatTick
  \/ BeforeUnload
  \/ SignOut
  \/ \E ok \in BOOLEAN : SignInWritten(ok)
  \/ \E u \in Accounts : \E ok \in BOOLEAN : ProfileFetched(u, ok)
  \/ \E ok \in BOOLEAN : SignOutWritten(ok)
  \/ SignedOut
  \/ \E i \in DOMAIN writes : \E ok \in BOOLEAN : WriteResolve(i, ok)

SpecAuth == InitAuth /\ [][NextAuth]_vars

NextNotice ==
  \/ \E p \in Peers : SelectUser(p)
  \/ \E i \in DOMAIN loads : LoadQuery(i)
  \/ \E i \in DOMAIN loads : LoadOk(i)
  \/ \E i \in DOMAIN loads : LoadFail(i)
  \/ \E p \in Peers : PeerSend(p)
  \/ \E e \in inbox : Deliver(e)
  \/ \E e \in handled : Redeliver(e)
  \/ SetOnNewMessage
  \/ Hide
  \/ Show
  \/ \E p \in Permissions : ReadPermission(p)
  \/ RequestPermission
  \/ \E result \in Permissions : PermissionResult(result)
  \/ PermissionError
  \/ \E i \in DOMAIN shown : CloseNotice(i)

\* System notifications: messages arrive while the page is hidden and shown
\* and the permission is read and asked for.
SpecNotice == InitNotice /\ [][NextNotice]_vars

\* ------------------------------------------------------------ channel name
\* Profile ids as strings of code units; none holds a colon.
ProfileIds == UNION {[1..n -> IdChars] : n \in 1..MaxIdLen}

\* The order of Array.prototype.sort() without a comparator: strings by their
\* code units, a proper prefix first.
RECURSIVE Before(_, _)
Before(s, t) ==
  IF t = <<>> THEN FALSE
  ELSE IF s = <<>> THEN TRUE
  ELSE IF Head(s) # Head(t) THEN Head(s) < Head(t)
  ELSE Before(Tail(s), Tail(t))

\* [currentProfileId, selectedUserId].sort()
Unsorted(a, b) == <<a, b>>
Sorted(a, b) == IF Before(b, a) THEN <<b, a>> ELSE <<a, b>>

\* .join(':')
Join(pair) == pair[1] \o <<Colon>> \o pair[2]

\* `typing:${[currentProfileId, selectedUserId].sort().join(':')}`
TypingChannelName(currentProfileId, peer) ==
  TypingPrefix \o Join(Sorted(currentProfileId, peer))

\* A client whose profile is me opens the conversation with peer and names its
\* typing channel.
NameTypingChannel(me, peer) ==
  /\ Len(keyed) < scope.clients
  /\ keyed' = Append(keyed, [me |-> me, peer |-> peer,
                             name |-> TypingChannelName(me, peer)])
  /\ UNCHANGED <<chatVars, notifyVars, subsVars, typingVars, usersVars, authVars,
                 inputVars,
                 paneVars, noticeVars>>

NextKey == \E me \in ProfileIds : \E peer \in ProfileIds : NameTypingChannel(me, peer)

SpecKey == InitKey /\ [][NextKey]_vars

\* ------------------------------------------------------------- chat window
\* ChatWindow (src/src/components/chat/ChatWindow.tsx): the input field and
\* its typing timer. onSendMessage is sendMessage of the synchronizer above.
OnTyping(isTyping) == Append(announced, isTyping)

\* clearTimeout(id)
ClearTimeout(id) == timers \ {id}

\* handleInputChange(value)
HandleInputChange(value) ==
  /\ Len(announced) < scope.announces
  /\ newMessage' = value
  /\ LET cleared == IF typingTimeoutRef # NoTimer
                    THEN ClearTimeout(typingTimeoutRef) ELSE timers
     IN IF Trim(value) # <<>>
        THEN /\ timerSeq < scope.timers
             /\ announced' = OnTyping(TRUE)
             /\ timerSeq' = timerSeq + 1
             /\ typingTimeoutRef' = timerSeq + 1
             /\ timers' = cleared \cup {timerSeq + 1}
        ELSE /\ announced' = OnTyping(FALSE)
             /\ timers' = cleared
             /\ UNCHANGED <<typingTimeoutRef, timerSeq>>
  /\ UNCHANGED <<chatVars, notifyVars, subsVars, typingVars, usersVars, authVars,
                 keyVars, selectedFile,
                 paneVars, noticeVars>>

\* handleFileSelect with a file chosen
HandleFileSelect ==
  /\ selectedFile' = TRUE
  /\ UNCHANGED <<chatVars, notifyVars, subsVars, typingVars, usersVars, authVars,
                 keyVars, newMessage, typingTimeoutRef, timers, timerSeq,
                 announced,
                 paneVars, noticeVars>>

\* handleSend, past its early return
HandleSend ==
  /\ ~(Trim(newMessage) = <<>> /\ ~selectedFile)
  /\ Len(announced) < scope.announces
  /\ newMessage' = <<>>
  /\ selectedFile' = FALSE
  /\ announced' = OnTyping(FALSE)
  /\ UNCHANGED <<chatVars, notifyVars, subsVars, typingVars, usersVars, authVars,
                 keyVars, typingTimeoutRef, timers, timerSeq,
                 paneVars, noticeVars>>

\* The callback of setTimeout(..., 2000)
TimerFire(id) ==
  /\ id \in timers
  /\ Len(announced) < scope.announces
  /\ timers' = timers \ {id}
  /\ announced' = OnTyping(FALSE)
  /\ UNCHANGED <<chatVars, notifyVars, subsVars, typingVars, usersVars, authVars,
                 keyVars, newMessage, selectedFile, typingTimeoutRef, timerSeq,
                 paneVars, noticeVars>>

NextInput ==
  \/ \E value \in Values : HandleInputChange(value)
  \/ HandleFileSelect
  \/ HandleSend
  \/ \E id \in timers : TimerFire(id)

SpecInput == InitInput /\ [][NextInput]_vars

\* ------------------------------------------------------------------ claims
Count(s, Test(_)) == Len(SelectSeq(s, Test))
Placed(c) == c.pc = "write" \/ c.path = "ok"
Failed(c) == c.path = "failed"
InWrite(c) == c.pc = "write"
MyRows == {i \in DOMAIN db : db[i].sender_id = Me}
Echoed(i) == \E e \in handled : e.id = db[i].id
Copies(id) == Cardinality({i \in DOMAIN messages : messages[i].id = id})
\* Placeholders of s addressed to somebody else than peer.
ForeignPending(s, peer) ==
  Len(SelectSeq(s, LAMBDA m : IsTemp(m.id) /\ m.receiver_id # peer))

OfPair(s, peer) == SelectSeq(s, LAMBDA m : InPair(m, Me, peer))
ShownAs(s, id, seen) == \E i \in DOMAIN s : s[i].id = id /\ s[i].seen = seen
\* Text made of blanks only, and a text without its leading and trailing blanks.
Blank(t) == \A i \in DOMAIN t : t[i] = " "
Stripped(t) ==
  IF Blank(t) THEN <<>>
  ELSE LET a == CHOOSE a \in DOMAIN t :
                  t[a] # " " /\ \A i \in 1..(a - 1) : t[i] = " "
           b == CHOOSE b \in DOMAIN t :
                  t[b] # " " /\ \A i \in (b + 1)..Len(t) : t[i] = " "
       IN SubSeq(t, a, b)
\* Neither direction of the pair (Me, peer) is the sender and receiver of e.
NotOfPair(e, peer) ==
  /\ ~(e.sender_id = Me /\ e.receiver_id = peer)
  /\ ~(e.sender_id = peer /\ e.receiver_id = Me)
\* The peers the local user has written to, and those that wrote to them.
WrittenTo == {p \in Peers : \E i \in DOMAIN db :
                db[i].sender_id = Me /\ db[i].receiver_id = p}
WrittenBy == {p \in Peers : \E i \in DOMAIN db :
                db[i].sender_id = p /\ db[i].receiver_id = Me}
IdSet(s) == {s[i].id : i \in DOMAIN s}
\* This step dispatched one presence request for u, with the body online and
\* a last-seen timestamp, and left it unanswered with nobody waiting for it.
Dispatched(u, online) ==
  /\ Len(writes') = Len(writes) + 1
  /\ \A i \in DOMAIN writes : writes'[i] = writes[i]
  /\ writes'[Len(writes')].user = u
  /\ writes'[Len(writes')].online = online
  /\ writes'[Len(writes')].last_seen = "now"
  /\ writes'[Len(writes')].status = "sent"
  /\ signOutPc' = signOutPc
\* a comes no later than b: by created_at, then by identifier.
InOrder(a, b) ==
  \/ a.created_at < b.created_at
  \/ a.created_at = b.created_at /\ a.id[2] <= b.id[2]

\* C1: for one fixed pair, with no history response replacing a timeline that
\* holds placeholders, no INSERT event handled and no write failed, the
\* timeline holds exactly one placeholder per send that reached its optimistic
\* append, whether its write is still pending or has succeeded.
C1_OnePlaceholderPerSend ==
  (Len(loads) <= 1 /\ ~reloaded /\ handled = {} /\ Count(sends, Failed) = 0)
  => /\ Len(Pending(messages)) = Count(sends, Placed)
     /\ \A s \in DOMAIN sends :
          sends[s].pc = "write" => HasId(messages, sends[s].tempId)

C1_Witness ==
  /\ Len(loads) <= 1 /\ ~reloaded /\ handled = {}
  /\ Count(sends, Failed) = 0
  /\ Len(sends) = 2
  /\ sends[1].path = "ok"
  /\ sends[2].pc = "write"
  /\ Len(Pending(messages)) = 2

\* C2: for one fixed pair, once every send has returned from a successful
\* write and the echo of each has been handled, the timeline holds the server
\* copy of each send exactly once and no placeholder.
C2_AllEchoedExactlyOnce ==
  (/\ Len(loads) <= 1
   /\ Len(sends) > 0
   /\ \A s \in DOMAIN sends : sends[s].path = "ok"
   /\ \A i \in MyRows : Echoed(i))
  => /\ Pending(messages) = <<>>
     /\ \A i \in MyRows : Copies(db[i].id) = 1

\* C3: handling again an event of the active pair that the subscription has
\* already handled leaves the timeline as it is, placeholders included.
C3_RedeliveryChangesNothing ==
  [][\A e \in handled :
       (InPair(e, Me, selectedUserId) /\ Redeliver(e)) => messages' = messages]_vars

\* C4: handling one event of the active pair removes at most one placeholder:
\* of k placeholders at least k-1 are still there afterwards.
C4_AtMostOnePlaceholderRemoved ==
  [][\A e \in inbox \cup handled :
       (InPair(e, Me, selectedUserId) /\ (Deliver(e) \/ Redeliver(e)))
       => Len(Pending(messages')) >= Len(Pending(messages)) - 1]_vars

\* C5: in every reachable state no two entries of the timeline carry the same
\* server identifier.
C5_ServerIdsUnique ==
  \A i, j \in DOMAIN messages :
    (i # j /\ messages[i].id = messages[j].id) => IsTemp(messages[i].id)

C5_Witness ==
  /\ \E i \in DOMAIN loads : loads[i].pc = "done" /\ loads[i].peer = selectedUserId
  /\ \E e \in handled : InPair(e, Me, selectedUserId) /\ Copies(e.id) = 1
  /\ Len(Durable(messages)) = 1

\* C6: while a peer is active the timeline holds no message of another pair.
C6_NoOtherPairInTimeline ==
  \A i \in DOMAIN messages : InPair(messages[i], Me, selectedUserId)

\* C7: a send of the previous pair that is still in flight after a switch is
\* never applied to the new timeline: while the peer stays the same no step adds
\* a placeholder addressed to another peer, and the failure of a write
\* addressed to another peer leaves every entry of the active pair in place.
C7_OldSendNotApplied ==
  [][/\ selectedUserId' = selectedUserId
        => ForeignPending(messages', selectedUserId)
             <= ForeignPending(messages, selectedUserId)
     /\ \A s \in DOMAIN sends :
          (sends[s].receiver # selectedUserId /\ WriteFail(s))
          => OfPair(messages', selectedUserId) = OfPair(messages, selectedUserId)]_vars

\* C8: when the write of a send fails, the step that resumes sendMessage
\* leaves no entry with that send's placeholder identifier and keeps every
\* server message; with nothing else in the conversation the timeline shows the
\* one pending message before that step and is empty after it.
C8_RollbackRemovesPending ==
  [][\A s \in DOMAIN sends :
       (sends[s].pc = "write" /\ sends'[s].path = "failed")
       => /\ ~HasId(messages', sends[s].tempId)
          /\ Durable(messages') = Durable(messages)
          /\ (Len(sends) = 1 /\ db = <<>> /\ ~reloaded)
             => /\ messages = <<Optimistic(sends[s].tempId[2], sends[s].receiver,
                                           sends[s].text, sends[s].file)>>
                /\ messages' = <<>>]_vars

C8_Witness ==
  /\ Len(sends) = 1
  /\ sends[1].path = "failed"
  /\ db = <<>>
  /\ ~reloaded
  /\ \A i \in DOMAIN loads : loads[i].pc = "sent"
  /\ messages = <<>>

\* C9: what sendMessage returns to its caller after a failed write differs
\* from what it returns after a successful one.
C9_FailureIsSignalled ==
  \A s, t \in DOMAIN sends :
    (sends[s].path = "failed" /\ sends[t].path = "ok")
    => sends[s].returned # sends[t].returned

\* C10: no step takes a message the timeline shows as seen to being shown as
\* not seen.
C10_SeenNeverReverts ==
  [][\A i \in DOMAIN db :
       ShownAs(messages, db[i].id, TRUE) => ~ShownAs(messages', db[i].id, FALSE)]_vars

\* C11: in every reachable state the timeline is ordered by creation timestamp
\* ascending, ties broken by identifier; the entries compared carry timestamps
\* of the same clock (two server messages, or two placeholders).
C11_TimelineOrdered ==
  \A i, j \in DOMAIN messages :
    (i < j /\ IsTemp(messages[i].id) = IsTemp(messages[j].id))
    => InOrder(messages[i], messages[j])

\* C12: while the pair stays active, a server message that is in the timeline
\* is in the timeline after every step.
C12_DurableStays ==
  [][selectedUserId' = selectedUserId
     => \A i \in DOMAIN messages :
          IsDurable(messages[i]) => HasId(messages', messages[i].id)]_vars

\* C13: handling an event whose sender and receiver are not the active pair in
\* either direction changes neither the timeline (server messages and
\* placeholders) nor the seen updates in flight, and invokes no callback.
C13_ForeignEventIgnored ==
  [][\A e \in inbox \cup handled :
       (NotOfPair(e, selectedUserId) /\ (Deliver(e) \/ Redeliver(e)))
       => /\ messages' = messages
          /\ seenReqs' = seenReqs
          /\ db' = db
          /\ calls' = calls]_vars

C13_Witness ==
  /\ selectedUserId = "C"
  /\ Len(sends) = 1 /\ sends[1].pc = "write" /\ sends[1].receiver = "C"
  /\ Len(Pending(messages)) = 1
  /\ \E e \in handled : e.sender_id = "B" /\ e.receiver_id = Me
  /\ onNewMessageRef # NoCallback
  /\ calls = {}
  /\ seenReqs = {}

\* C14: a callback is invoked only for a message of a peer, only on the
\* callback registered last, and only once for a message: the first delivery of
\* a peer's message of the active pair invokes it, a repeated delivery does not.
C14_CallbackOncePerMessage ==
  [][/\ \A c \in calls' \ calls :
          /\ c[1] = onNewMessageRef
          /\ c[3] = 1
          /\ \E i \in DOMAIN db : db[i].id = c[2] /\ db[i].sender_id # Me
     /\ \A e \in inbox :
          (/\ Deliver(e)
           /\ ~NotOfPair(e, selectedUserId)
           /\ e.sender_id # Me
           /\ onNewMessageRef # NoCallback)
          => calls' \ calls = {<<onNewMessageRef, e.id, 1>>}]_vars

\* C15: sendMessage with blank or whitespace-only text and no file changes
\* neither the timeline nor the uploading flag, starts no upload and writes no
\* row: the call returns at once.
C15_BlankSendIsNoOp ==
  [][\A text \in Texts, now \in Now :
       (Blank(text) /\ SendMessage(text, FALSE, now))
       => /\ messages' = messages
          /\ uploading' = uploading
          /\ db' = db /\ inbox' = inbox
          /\ Len(sends') = Len(sends) + 1
          /\ sends'[Len(sends')].pc = "done"
          /\ \A s \in DOMAIN sends : sends'[s] = sends[s]]_vars

C15_Witness ==
  /\ Len(sends) = 2
  /\ sends[1].pc = "upload"
  /\ sends[2].path = "noop"
  /\ uploading
  /\ messages = <<>> /\ db = <<>>

\* C16: when the upload of a send fails, a send with blank text is abandoned
\* (timeline and table unchanged, uploading cleared, the call returns); a send
\* with text goes on as text-only: the placeholder carries the trimmed text and
\* no attachment, and so does the row its write stores.
C16_UploadFailure ==
  [][\A s \in DOMAIN sends :
       /\ \A now \in Now :
            (sends[s].pc = "upload" /\ UploadDone(s, FALSE, now))
            => IF Blank(sends[s].text)
               THEN /\ messages' = messages
                    /\ db' = db
                    /\ uploading' = FALSE
                    /\ sends'[s].pc = "done"
               ELSE /\ messages' = Append(messages,
                         [id |-> TempId(now), sender_id |-> Me,
                          receiver_id |-> sends[s].receiver,
                          text |-> Stripped(sends[s].text), seen |-> FALSE,
                          file |-> FALSE, created_at |-> now])
                    /\ sends'[s].pc = "write"
                    /\ sends'[s].text = Stripped(sends[s].text)
                    /\ sends'[s].file = FALSE
       /\ (sends[s].pc = "write" /\ WriteOk(s))
          => /\ db'[Len(db')].text = sends[s].text
             /\ db'[Len(db')].file = sends[s].file]_vars

C16_Witness ==
  /\ Len(sends) = 2
  /\ sends[1].path = "abandoned"
  /\ sends[2].path = "ok"
  /\ ~uploading
  /\ \E i \in DOMAIN db : db[i].sender_id = Me /\ db[i].text = <<"h">> /\ ~db[i].file

\* C17: a history load that fails leaves the timeline as it was and clears the
\* loading flag; one that succeeds makes the timeline exactly the rows fetched
\* and clears the loading flag.
C17_LoadAllOrNothing ==
  [][\A i \in DOMAIN loads :
       /\ LoadFail(i) => (messages' = messages /\ loading' = FALSE)
       /\ LoadOk(i) => (messages' = loads[i].data /\ loading' = FALSE)]_vars

C17_Witness ==
  /\ \A i \in DOMAIN loads : loads[i].pc = "done"
  /\ loading = FALSE
  /\ handled = {} /\ inbox = {}
  /\ messages # <<>>
  /\ messages = [i \in 1..Len(db) |-> db[i]]
  /\ \A i \in DOMAIN db : db[i].sender_id = selectedUserId

\* C18: after every sync of the typing channel the typing set is exactly the
\* participants of the snapshot just taken that are typing and are not the
\* local user, whatever the set held before.
C18_TypingSetIsSnapshot ==
  [][PresenceSync
     => typingUsers' = {u \in Peers : \E r \in presenceState' :
                                         r.profileId = u /\ r.isTyping}]_vars

C18_Witness ==
  /\ selectedUserId = "B"
  /\ presenceState = {Presence(Me, TRUE), Presence("B", TRUE)}
  /\ typingUsers = {"B"}

\* C19: while a peer is active the typing set holds nobody but that peer: a
\* switch leaves no participant of the previous pair's channel in it.
C19_TypingResetOnSwitch == \A u \in typingUsers : u = selectedUserId

C27_NoPlaceholderBesideCopy ==
  Len(Pending(messages))
    <= Count(sends, InWrite) + Cardinality({i \in MyRows : ~Echoed(i)})

C27_Witness ==
  /\ Len(sends) = 2
  /\ sends[1].path = "ok" /\ sends[2].pc = "write"
  /\ MyRows # {} /\ \A i \in MyRows : Echoed(i) /\ Copies(db[i].id) = 1
  /\ Len(Pending(messages)) = 1

\* C28: a seen update for the active peer is issued by every activation and by
\* every handled event of the active pair whose receiver is the local user,
\* and by no other event (the local user's echoes included); when it reaches
\* the table it marks exactly the rows that peer sent to the local user and
\* that were not seen, and whether it succeeds or fails the timeline is left
\* as it is.
C28_SeenUpdates ==
  [][/\ \A p \in Peers : SelectUser(p) => p \in seenReqs'
     /\ \A e \in inbox \cup handled :
          (Deliver(e) \/ Redeliver(e))
          => IF ~NotOfPair(e, selectedUserId) /\ e.receiver_id = Me
             THEN seenReqs' = seenReqs \cup {selectedUserId}
             ELSE seenReqs' = seenReqs
     /\ \A p \in Peers :
          SeenUpdate(p)
          => /\ messages' = messages
             /\ Len(db') = Len(db)
             /\ \A i \in DOMAIN db :
                  db'[i] = IF db[i].sender_id = p /\ db[i].receiver_id = Me
                              /\ ~db[i].seen
                           THEN [db[i] EXCEPT !.seen = TRUE] ELSE db[i]
     /\ \A p \in Peers :
          SeenFail(p) => (messages' = messages /\ db' = db)]_vars

C28_Witness ==
  /\ selectedUserId = "C"
  /\ seenReqs = {}
  /\ \E e \in handled : e.sender_id = "C" /\ e.receiver_id = Me
  /\ \E i \in DOMAIN db : db[i].sender_id = "C" /\ db[i].seen
  /\ \E i \in DOMAIN db : db[i].sender_id = "B" /\ ~db[i].seen

\* C21: searchUsers with an empty or whitespace-only query changes neither the
\* directory nor its loading flag and issues no fetch: the call returns at
\* once.
C21_BlankSearchIsNoOp ==
  [][\A q \in Queries :
       (Blank(q) /\ SearchUsers(q))
       => /\ users' = users
          /\ usersLoading' = usersLoading
          /\ Len(fetches') = Len(fetches) + 1
          /\ fetches'[Len(fetches')].pc = "done"
          /\ \A f \in DOMAIN fetches : fetches'[f] = fetches[f]]_vars

C21_Witness ==
  /\ Len(fetches) = 2
  /\ fetches[1].kind = "search" /\ fetches[1].pc = "answered"
  /\ fetches[2].path = "noop"
  /\ usersLoading
  /\ users = <<>>

\* C22: getRecentConversations whose message queries return their rows
\* collects exactly the peers the local user wrote to and the peers that wrote
\* to them; with none (an empty history, whatever the queries return) it
\* empties the directory, clears loading and returns without a profiles query;
\* otherwise the rows of its profiles query, one per collected peer, replace
\* the directory and loading is cleared.
C22_RecentConversations ==
  [][\A f \in DOMAIN fetches :
       /\ RecentsSent(f, TRUE) => fetches'[f].ids = WrittenTo
       /\ (RecentsReceived(f, TRUE) /\ fetches[f].sentOk)
          => IF fetches[f].ids \cup WrittenBy = {}
             THEN users' = <<>> /\ ~usersLoading' /\ fetches'[f].pc = "done"
             ELSE /\ fetches'[f].pc = "sent"
                  /\ fetches'[f].ids = fetches[f].ids \cup WrittenBy
                  /\ users' = users
       /\ (db = <<>> /\ fetches[f].pc = "sent2" /\ fetches'[f] # fetches[f])
          => users' = <<>> /\ ~usersLoading' /\ fetches'[f].pc = "done"
       /\ (/\ fetches[f].kind = "recents" /\ FetchOk(f)
           /\ fetches[f].sentOk /\ fetches[f].receivedOk)
          => /\ IdSet(users') = fetches[f].ids
             /\ Len(users') = Cardinality(fetches[f].ids)
             /\ IdSet(users') \subseteq WrittenTo \cup WrittenBy
             /\ ~usersLoading']_vars

C22_Witness ==
  /\ Len(fetches) = 1
  /\ fetches[1].kind = "recents" /\ fetches[1].path = "ok"
  /\ WrittenTo = {"B"} /\ WrittenBy = {"C"}
  /\ IdSet(users) = {"B", "C"} /\ Len(users) = 2
  /\ ~usersLoading

\* C23: the handler of a profile UPDATE event replaces the entry of the
\* directory that has the id of the event by the record of the event, at the
\* same position, and leaves every other entry and the length as they are; with
\* no such entry the directory is unchanged.
C23_ProfilePatchedInPlace ==
  [][\A e \in profileEvents :
       OnProfileUpdate(e)
       => /\ Len(users') = Len(users)
          /\ \A i \in DOMAIN users :
               users'[i] = IF users[i].id = e.id THEN e ELSE users[i]]_vars

C23_Witness ==
  /\ Len(users) = 2
  /\ users[1].last_seen = 0
  /\ users[2] = profiles[users[2].id] /\ users[2].last_seen = 1
  /\ profileEvents = {}
  /\ Len(fetches) = 1 /\ fetches[1].path = "ok"

\* C24: a call whose fetch fails never changes the directory: not when its
\* profiles query fails (then it also clears loading), and not when a message
\* query of getRecentConversations does.
C24_FailedFetchKeepsDirectory ==
  [][\A f \in DOMAIN fetches :
       /\ FetchFail(f) => (users' = users /\ ~usersLoading')
       /\ \A ok \in BOOLEAN :
            (RecentsReceived(f, ok) /\ ~(fetches[f].sentOk /\ ok))
            => users' = users
       /\ (/\ fetches[f].kind = "recents" /\ FetchOk(f)
           /\ ~(fetches[f].sentOk /\ fetches[f].receivedOk))
          => users' = users]_vars

\* C25: while the page is open the heartbeat interval runs exactly for the
\* signed-in user, and for nobody when there is none or the page is gone; each
\* of its ticks with the document visible dispatches one presence write with
\* online = true for that user.
C25_Heartbeat ==
  /\ [](page = "open" => heartbeat = user)
  /\ [](page = "closed" => heartbeat = NoUser)
  /\ [][(HeartbeatTick /\ visibilityState = "visible")
        => (user # NoUser /\ Dispatched(user, TRUE))]_vars

C25_Witness ==
  /\ Len(writes) = 3
  /\ writes[1].by = "signIn" /\ writes[1].user = "A"
  /\ writes[2].by = "heartbeat" /\ writes[2].user = "A" /\ writes[2].online
  /\ writes[3].by = "signOut"
  /\ user = NoUser
  /\ heartbeat = NoUser
  /\ page = "open"

\* C26: with a user signed in, every change of the document to hidden and every
\* unload of the page dispatches one request with online = false and a
\* last-seen timestamp for that user, and every change back to visible one with
\* online = true; none waits for its response.
C26_OfflineOnExit ==
  [][(page = "open" /\ user # NoUser)
     => /\ ((visibilityState = "visible" /\ visibilityState' = "hidden")
            => Dispatched(user, FALSE))
        /\ ((page' = "closed") => Dispatched(user, FALSE))
        /\ ((visibilityState = "hidden" /\ visibilityState' = "visible")
            => Dispatched(user, TRUE))]_vars

C26_Witness ==
  /\ Len(writes) = 3
  /\ writes[1].by = "session"
  /\ writes[2].by = "hidden" /\ ~writes[2].online /\ writes[2].via = "beacon"
  /\ writes[3].by = "unload" /\ ~writes[3].online /\ writes[3].via = "keepalive"
  /\ \A i \in 2..3 : writes[i].status = "sent" /\ writes[i].user = user
  /\ visibilityState = "hidden"
  /\ page = "closed"

\* C29: two clients name the same typing channel exactly when their
\* conversations have the same unordered pair of participants.
C29_ChannelNameOfPair ==
  \A i \in DOMAIN keyed : \A j \in DOMAIN keyed :
    (keyed[i].name = keyed[j].name)
      <=> ({keyed[i].me, keyed[i].peer} = {keyed[j].me, keyed[j].peer})

C29_Witness ==
  /\ Len(keyed) = 2
  /\ keyed[1].me = <<48>> /\ keyed[1].peer = <<48, 97>>
  /\ keyed[2].me = <<48, 97>> /\ keyed[2].peer = <<48>>
  /\ keyed[1].name = keyed[2].name

\* C30: a keystroke cancels the timer scheduled before it, announces true and
\* schedules one timer when the input is not blank, and announces false
\* otherwise; a send cancels the pending timer; so at most one timer is pending,
\* and with none pending the last announcement is false.
C30_TypingDebounce ==
  /\ [](Cardinality(timers) <= 1)
  /\ []((timers = {} /\ announced # <<>>) => ~announced[Len(announced)])
  /\ [][/\ \A v \in Values :
            (HandleInputChange(v)
             => /\ timers \cap timers' = {}
                /\ IF Blank(v)
                   THEN timers' = {} /\ ~announced'[Len(announced')]
                   ELSE Cardinality(timers') = 1 /\ announced'[Len(announced')])
         /\ (HandleSend => timers' = {})]_vars

\* C31: the failure of a presence write adds no request and leaves user,
\* session, profile and loading as they are; signIn returns its data without
\* an error and signOut returns no error, whatever the answer to their
\* presence write was.
C31_PresenceFailureIsSilent ==
  [][/\ \A i \in DOMAIN writes :
          (writes[i].status = "sent" /\ writes'[i].status = "failed")
          => /\ Len(writes') = Len(writes)
             /\ \A j \in DOMAIN writes \ {i} : writes'[j] = writes[j]
             /\ user' = user /\ authSession' = authSession
             /\ profile' = profile /\ authLoading' = authLoading
             /\ listeners' = listeners /\ heartbeat' = heartbeat
     /\ \A ok \in BOOLEAN :
          SignInWritten(ok)
          => \E u \in Accounts :
               /\ \E i \in DOMAIN writes :
                    /\ writes[i].by = "signIn" /\ writes[i].user = u
                    /\ writes'[i].status # writes[i].status
               /\ returned' = [call |-> "signIn", data |-> u, error |-> "null"]
     /\ SignedOut
        => returned' = [call |-> "signOut", data |-> "null", error |-> "null"]]_vars

C31_Witness ==
  /\ Len(writes) = 2
  /\ writes[1].by = "signIn" /\ writes[1].status = "failed"
  /\ writes[2].by = "signOut" /\ writes[2].status = "failed"
  /\ returned.call = "signOut" /\ returned.error = "null"
  /\ user = NoUser
  /\ signOutPc = "idle"

\* C36: once signOut has signed a user out, and until that user signs in
\* again, the last presence request the client dispatched for them says
\* online = false.
C36_OfflineAfterSignOut ==
  \A u \in Accounts :
    (/\ authSession # u
     /\ \E i \in DOMAIN writes :
          /\ writes[i].user = u /\ writes[i].by = "signOut"
          /\ \A j \in DOMAIN writes :
               (j > i /\ writes[j].user = u)
               => writes[j].by \notin {"signIn", "session"})
    => \A i \in DOMAIN writes :
         (writes[i].user = u /\ \A j \in DOMAIN writes : j > i => writes[j].user # u)
         => ~writes[i].online

\* C37: no step that starts and ends with the document hidden dispatches a
\* presence request with online = true.
C37_NoOnlineWhileHidden ==
  [][(/\ visibilityState = "hidden" /\ visibilityState' = "hidden"
      /\ Len(writes') > Len(writes))
     => ~writes'[Len(writes')].online]_vars

\* C32: the rollback of a failed write removes one entry of the timeline, the
\* placeholder of that send, and keeps every other placeholder and every server
\* message, also when another send minted its placeholder in the same
\* millisecond.
C32_RollbackRemovesOwnPlaceholder ==
  [][\A s \in DOMAIN sends :
       WriteFail(s)
       => /\ Len(messages') >= Len(messages) - 1
          /\ Durable(messages') = Durable(messages)
          /\ Len(Pending(messages'))
               >= Cardinality({t \in DOMAIN sends \ {s} :
                                InWrite(sends[t]) /\ HasId(messages, sends[t].tempId)})]_vars

\* C35: uploading is true exactly while the attachment upload of some send is
\* in flight.
C35_UploadingWhileUploadInFlight ==
  uploading <=> \E s \in DOMAIN sends : sends[s].pc = "upload"

\* C33: when every upload, insert and history query is answered and the
\* handler of the change stream ends up having received the echo of every
\* message the local user wrote, a timeline that holds a placeholder is
\* followed by one that holds none.
C33_PlaceholdersEventuallyRemoved ==
  (<>[](\A i \in MyRows : Echoed(i)))
  => ((Pending(messages) # <<>>) ~> (Pending(messages) = <<>>))

\* A call of the directory that returned its rows (or an empty list of
\* conversations) without an error.
Settled(g) == fetches[g].pc = "done" /\ fetches[g].path \in {"ok", "empty"}

\* C34: when several directory fetches are in flight together, the directory
\* ends with the result of the request issued last, whatever the order of the
\* responses: the successful response of a request that arrives after a
\* request issued later has already returned successfully leaves the
\* directory as it is.
C34_LatestRequestWins ==
  [][\A f \in DOMAIN fetches :
       ((FetchOk(f) \/ RecentsReceived(f, TRUE))
        /\ \E g \in DOMAIN fetches : g > f /\ Settled(g))
       => (users' = users)]_vars

\* C38: while a peer is selected the profile handed to the chat window is not
\* null, whatever replaces the directory.
C38_SelectedPeerKept ==
  (selectedUserId # NoPeer) => (selectedUser # NoProfile)

\* C39: sendNotification creates a notification only when the permission is
\* granted and the document is not visible; a callback invoked in any other
\* state creates none and changes nothing of the notification state.
C39_NotifyOnlyGrantedAndHidden ==
  [][/\ (Len(shown') > Len(shown))
          => (permission = "granted" /\ visibilityState # "visible")
     /\ (calls' # calls /\ ~(permission = "granted" /\ visibilityState # "visible"))
          => UNCHANGED <<shown, permission, permissionPc>>]_vars

\* A notification was created for one message while the page was hidden, and
\* the callback ran for another message with the page visible and created none.
C39_Witness ==
  /\ Len(shown) = 1
  /\ Cardinality({c[2] : c \in calls}) = 2
  /\ permission = "granted"
  /\ visibilityState = "visible"

====
